---- MODULE Spec2Model ----
(***************************************************************************)
(* A model of Simulation.py: a capacity-bounded line of customers served   *)
(* by cashiers in one-minute ticks.                                        *)
(*                                                                         *)
(* Numbers.  Work units, rates and times are integers here; the quotient   *)
(* workToBeDone / unitsOfWorkPerMin and the service times built from it    *)
(* are exact rationals <<n, d>> in lowest terms.  A division by zero       *)
(* raises ZeroDivisionError for Python int/float operands and yields nan   *)
(* for numpy.float64 operands (which is what SimulationEngine passes);     *)
(* nan is the pair <<0, 0>> and absorbs every sum.                         *)
(***************************************************************************)
EXTENDS Integers, Sequences, FiniteSets

\* ---------------------------------------------------------------- bounds
MaxBatch == 3
MinutesToRun == 3

\* the rates a cashier may be built with, and the workloads of a customer
Rates == {0, 5}
Workloads == {2, 12}
\* the capacities of the line, and the rates of the cashiers handed to it
Caps == {0, 1, 2}
LineUps == {<<>>} \cup {<<a>> : a \in Rates} \cup {<<a, b>> : a \in Rates, b \in Rates}
\* a CustomerLine built without a capacity: None, written -1 here (no
\* capacity of Caps is negative); it is only ever tested with = and #
None == -1
\* workloads that include a customer with nothing to do
ZeroWorkloads == {0, 12}
\* the kind of number the caller builds servers and customers with
NumberKinds == {"python", "numpy"}

VARIABLES
    cashiers,       \* CustomerLine.cashiers: sequence of Server records
    customerQueue,  \* CustomerLine.customerQueue: sequence of Customer records
    cap,            \* CustomerLine.cap
    CustomersLost,  \* CustomerLine.CustomersLost
    WaitingTimes,   \* Customer.WaitingTimes
    ServiceTimes,   \* Customer.ServiceTimes
    TotalFinished,  \* Customer.TotalFinished
    minute,         \* the loop variable of SimulationManager.run / timeNow
    pc,             \* where the run is
    cashierIdx,     \* position of the for loop of workOnCustomers
    raised,         \* the exception that ended the run, "none" if none
    printed,        \* what printStatistics and run printed
    numberKind,     \* "python" (int/float) or "numpy" (numpy.float64)
    arrived,        \* history: number of Customer objects created so far
    admitted,       \* history: the customers appended to the queue, in order
    assignLog,      \* history: <<id, tick>> of every assignCustomer call
    delivered,      \* history: work each cashier delivered in the current tick
    rejected,       \* history: the ids of the customers counted as lost
    done,           \* history: the customers as Customer.help finished them
    iterations      \* history: while iterations of workOnCustomers in this tick

vars == <<cashiers, customerQueue, cap, CustomersLost, WaitingTimes,
          ServiceTimes, TotalFinished, minute, pc, cashierIdx, raised,
          printed, numberKind, arrived, admitted, assignLog, delivered,
          rejected, done, iterations>>

\* ------------------------------------------------------------ arithmetic
Min(a, b) == IF a <= b THEN a ELSE b

RECURSIVE GCD(_, _)
GCD(a, b) == IF b = 0 THEN a ELSE GCD(b, a % b)

NaN == <<0, 0>>

\* n / d in lowest terms, for n >= 0 and d > 0
Rat(n, d) == LET g == GCD(n, d) IN <<n \div g, d \div g>>

IsNaN(r) == r[2] = 0

RatAdd(a, b) ==
    IF IsNaN(a) \/ IsNaN(b) THEN NaN
    ELSE Rat(a[1] * b[2] + b[1] * a[2], a[2] * b[2])

\* Python's a / b when b # 0, and numpy's 0.0 / 0.0 = nan when b = 0
TrueDiv(a, b) == IF b = 0 THEN NaN ELSE Rat(a, b)

RECURSIVE SumRat(_)
SumRat(s) == IF s = <<>> THEN <<0, 1>> ELSE RatAdd(s[1], SumRat(Tail(s)))

RECURSIVE SumInt(_)
SumInt(s) == IF s = <<>> THEN 0 ELSE s[1] + SumInt(Tail(s))

\* -------------------------------------------------------------- Customer
\* Customer.__init__; id stands for the identity of the object
NewCustomer(i, unitsOfWork, time) ==
    [id |-> i, unitsOfWorkToComplete |-> unitsOfWork,
     workRemaining |-> unitsOfWork, timeEnteredLine |-> time,
     timeExitedLine |-> -1]

\* mutant: a completion is recorded without raising the finished count
help_noCount(c, workCompleted, timeNow, percentOfMinuteHelped, ST, TF) ==
    LET c1 == [c EXCEPT !.workRemaining = c.workRemaining - workCompleted]
        serviceTime == RatAdd(<<timeNow - c1.timeExitedLine, 1>>,
                              percentOfMinuteHelped)
    IN  IF c1.workRemaining <= 0
        THEN [customer |-> c1, ServiceTimes |-> Append(ST, serviceTime),
              TotalFinished |-> TF]
        ELSE [customer |-> c1, ServiceTimes |-> ST, TotalFinished |-> TF]

\* Customer.help: the customer after the call and the class statistics
help(c, workCompleted, timeNow, percentOfMinuteHelped, ST, TF) ==
    LET c1 == [c EXCEPT !.workRemaining = c.workRemaining - workCompleted]
        serviceTime == RatAdd(<<timeNow - c1.timeExitedLine, 1>>,
                              percentOfMinuteHelped)
    IN  IF c1.workRemaining <= 0
        THEN [customer |-> c1, ServiceTimes |-> Append(ST, serviceTime),
              TotalFinished |-> TF + 1]
        ELSE [customer |-> c1, ServiceTimes |-> ST, TotalFinished |-> TF]

isFinished(c) == c.workRemaining <= 0

\* mutant: the time the customer entered the line is stored as its exit time
finishedWaiting_entered(c, currentTime, WT) ==
    LET c1 == [c EXCEPT !.timeExitedLine = c.timeEnteredLine]
    IN  [customer |-> c1,
         WaitingTimes |-> Append(WT, c1.timeExitedLine - c1.timeEnteredLine)]

\* Customer.finishedWaiting
finishedWaiting(c, currentTime, WT) ==
    LET c1 == [c EXCEPT !.timeExitedLine = currentTime]
    IN  [customer |-> c1,
         WaitingTimes |-> Append(WT, c1.timeExitedLine - c1.timeEnteredLine)]

\* ---------------------------------------------------------------- Server
\* Server.__init__; customer is <<>> for None and <<c>> for a customer
NewServer(workPerMin) ==
    [unitsOfWorkPerMin |-> workPerMin, workDoneInLastMin |-> 0,
     lastCustomerTime |-> -1, customersServed |-> 0, customer |-> <<>>]

isIdle(s) == s.customer = <<>>

\* mutant: the change of minute is not looked at
canDoMoreWorkThisMinute_noMinute(s, timeNow) ==
    s.workDoneInLastMin < s.unitsOfWorkPerMin

\* mutant: a cashier that has worked in this minute may always go on
canDoMoreWorkThisMinute_orEqual(s, timeNow) ==
    s.lastCustomerTime <= timeNow \/ s.workDoneInLastMin < s.unitsOfWorkPerMin

canDoMoreWorkThisMinute(s, timeNow) ==
    s.lastCustomerTime < timeNow \/ s.workDoneInLastMin < s.unitsOfWorkPerMin

\* Server.assignCustomer
assignCustomer(s, c, timeNow, WT) ==
    LET fw == finishedWaiting(c, timeNow, WT)
    IN  [server |-> [s EXCEPT !.customer = <<fw.customer>>],
         WaitingTimes |-> fw.WaitingTimes]

\* the lazy reset at the top of Server.process
resetForMinute(s, currentTime) ==
    IF s.lastCustomerTime < currentTime
    THEN [s EXCEPT !.workDoneInLastMin = 0, !.lastCustomerTime = currentTime]
    ELSE s

\* mutant: the work is not clamped to what is left of the minute's budget
workToBeDone_noBudget(s) == s.customer[1].workRemaining

\* mutant: the work is not clamped to what the customer still needs
workToBeDone_budgetOnly(s) == s.unitsOfWorkPerMin - s.workDoneInLastMin

workToBeDone(s) ==
    Min(s.customer[1].workRemaining,
        s.unitsOfWorkPerMin - s.workDoneInLastMin)

\* Server.process: the server and the statistics after the call, the work
\* delivered, whether the division raised ZeroDivisionError, and the customer
\* whose completion Customer.help recorded, if it recorded one
ServerProcess(s, currentTime, ST, TF, kind) ==
    IF s.customer = <<>>
    THEN [server |-> s, ServiceTimes |-> ST, TotalFinished |-> TF,
          work |-> 0, raised |-> FALSE, finished |-> <<>>]
    ELSE
      LET s1 == resetForMinute(s, currentTime)
          w == workToBeDone(s1)
      IN  IF s1.unitsOfWorkPerMin = 0 /\ kind = "python"
          THEN [server |-> s1, ServiceTimes |-> ST, TotalFinished |-> TF,
                work |-> 0, raised |-> TRUE, finished |-> <<>>]
          ELSE
            LET h == help(s1.customer[1], w, currentTime,
                          TrueDiv(w, s1.unitsOfWorkPerMin), ST, TF)
                s2 == [s1 EXCEPT !.customer = <<h.customer>>,
                                 !.workDoneInLastMin = @ + w]
                s3 == IF isFinished(h.customer)
                      THEN [s2 EXCEPT !.customer = <<>>,
                                      !.customersServed = @ + 1]
                      ELSE s2
            IN  [server |-> s3, ServiceTimes |-> h.ServiceTimes,
                 TotalFinished |-> h.TotalFinished, work |-> w,
                 raised |-> FALSE,
                 finished |-> IF h.TotalFinished > TF THEN <<h.customer>> ELSE <<>>]

\* ---------------------------------------------------------- CustomerLine
\* mutant: every customer of a batch that does not fit is counted as lost
addCustomersToLine_lostAll(queue, customers, capacity, lost) ==
    IF Len(queue) + Len(customers) <= capacity
    THEN [customerQueue |-> queue \o customers, CustomersLost |-> lost]
    ELSE LET customersToAdd == capacity - Len(queue)
         IN  [customerQueue |-> queue \o SubSeq(customers, 1, customersToAdd),
              CustomersLost |-> lost + Len(customers)]

\* mutant: the batch is appended without looking at the capacity
addCustomersToLine_noCap(queue, customers, capacity, lost) ==
    [customerQueue |-> queue \o customers, CustomersLost |-> lost]

\* mutant: a batch that does not fit is rejected whole
addCustomersToLine_rejectBatch(queue, customers, capacity, lost) ==
    IF Len(queue) + Len(customers) <= capacity
    THEN [customerQueue |-> queue \o customers, CustomersLost |-> lost]
    ELSE [customerQueue |-> queue, CustomersLost |-> lost + Len(customers)]

\* mutant: the places left are filled from the end of the batch
addCustomersToLine_suffix(queue, customers, capacity, lost) ==
    IF Len(queue) + Len(customers) <= capacity
    THEN [customerQueue |-> queue \o customers, CustomersLost |-> lost]
    ELSE LET customersToAdd == capacity - Len(queue)
         IN  [customerQueue |-> queue \o
                  SubSeq(customers, Len(customers) - customersToAdd + 1, Len(customers)),
              CustomersLost |-> lost + (Len(customers) - customersToAdd)]

\* mutant: one customer more than the places left is appended
addCustomersToLine_offByOne(queue, customers, capacity, lost) ==
    IF Len(queue) + Len(customers) <= capacity
    THEN [customerQueue |-> queue \o customers, CustomersLost |-> lost]
    ELSE LET customersToAdd == capacity - Len(queue) + 1
         IN  [customerQueue |-> queue \o SubSeq(customers, 1, customersToAdd),
              CustomersLost |-> lost + (Len(customers) - customersToAdd)]

\* CustomerLine.addCustomersToLine: the queue and CustomersLost afterwards
addCustomersToLine(queue, customers, capacity, lost) ==
    IF Len(queue) + Len(customers) <= capacity
    THEN [customerQueue |-> queue \o customers, CustomersLost |-> lost]
    ELSE LET customersToAdd == capacity - Len(queue)
         IN  [customerQueue |-> queue \o SubSeq(customers, 1, customersToAdd),
              CustomersLost |-> lost + (Len(customers) - customersToAdd)]

\* the while condition of workOnCustomers
whileCondition(queue, s, timeNow) ==
    queue # <<>> /\ canDoMoreWorkThisMinute(s, timeNow)

\* mutant: deque.pop, the newest customer is taken
popleft_pop(queue) ==
    [item |-> queue[Len(queue)], rest |-> SubSeq(queue, 1, Len(queue) - 1)]

\* mutant: the head is read and left in the queue
popleft_peek(queue) == [item |-> Head(queue), rest |-> queue]

\* deque.popleft
popleft(queue) == [item |-> Head(queue), rest |-> Tail(queue)]

\* ------------------------------------------------------------ the inputs
\* the batches SimulationEngine.newCustomers can return
RECURSIVE SeqsUpTo(_, _)
SeqsUpTo(S, n) ==
    IF n = 0 THEN {<<>>}
    ELSE LET shorter == SeqsUpTo(S, n - 1)
         IN  shorter \cup {Append(q, x) : q \in {r \in shorter : Len(r) = n - 1}, x \in S}

Batches == SeqsUpTo(Workloads, MaxBatch)
ZeroBatches == SeqsUpTo(ZeroWorkloads, MaxBatch)

\* --------------------------------------------------------------- actions
InitWith(caps) ==
    /\ cashiers \in {[i \in DOMAIN rs |-> NewServer(rs[i])] : rs \in LineUps}
    /\ customerQueue = <<>>
    /\ cap \in caps
    /\ CustomersLost = 0
    /\ WaitingTimes = <<>>
    /\ ServiceTimes = <<>>
    /\ TotalFinished = 0
    /\ minute = 0
    /\ pc = "run"
    /\ cashierIdx = 0
    /\ raised = "none"
    /\ printed = <<>>
    \* the kind of number shows only in a division by a zero rate
    /\ numberKind \in IF \E i \in DOMAIN cashiers : cashiers[i].unitsOfWorkPerMin = 0
                       THEN NumberKinds ELSE {"numpy"}
    /\ arrived = 0
    /\ admitted = <<>>
    /\ assignLog = <<>>
    /\ delivered = [i \in DOMAIN cashiers |-> 0]
    /\ rejected = {}
    /\ done = <<>>
    /\ iterations = 0

Init == InitWith(Caps)

\* One pass of the loop of run up to the end of addCustomersToLine:
\* newCustomers(minute), then process calls addCustomersToLine.
Arrivals(batches) ==
    /\ pc = "run"
    /\ minute < MinutesToRun
    /\ cap # None
    /\ \E works \in batches :
         LET customers == [i \in DOMAIN works |->
                              NewCustomer(arrived + i, works[i], minute)]
             r == addCustomersToLine(customerQueue, customers, cap, CustomersLost)
         IN  /\ customerQueue' = r.customerQueue
             /\ CustomersLost' = r.CustomersLost
             /\ arrived' = arrived + Len(customers)
             /\ admitted' = admitted \o
                    SubSeq(r.customerQueue, Len(customerQueue) + 1, Len(r.customerQueue))
             \* the customers counted as lost are the last ones of the batch
             /\ rejected' = rejected \cup
                    {customers[i].id : i \in
                        (Len(customers) - (r.CustomersLost - CustomersLost) + 1)
                            .. Len(customers)}
    /\ pc' = "workOnCustomers"
    /\ cashierIdx' = 1
    /\ delivered' = [i \in DOMAIN cashiers |-> 0]
    /\ iterations' = 0
    /\ UNCHANGED <<cashiers, cap, WaitingTimes, ServiceTimes, TotalFinished,
                   minute, raised, printed, numberKind, assignLog, done>>

RunLoop == Arrivals(Batches)

\* the same with batches that hold customers of workload 0
RunLoopZero == Arrivals(ZeroBatches)

\* The first pass of the loop of run for a CustomerLine whose cap is None:
\* the customers are created, and the comparison of addCustomersToLine,
\* len(...) + len(customers) <= None, raises TypeError.
RunLoopNoCap ==
    /\ pc = "run"
    /\ minute < MinutesToRun
    /\ cap = None
    /\ \E works \in Batches : arrived' = arrived + Len(works)
    /\ raised' = "TypeError"
    /\ pc' = "crashed"
    /\ UNCHANGED <<cashiers, customerQueue, cap, CustomersLost, WaitingTimes,
                   ServiceTimes, TotalFinished, minute, cashierIdx, printed,
                   numberKind, admitted, assignLog, delivered, rejected, done,
                   iterations>>

\* One iteration of the while loop of workOnCustomers for the current cashier
WhileBody ==
    /\ pc = "workOnCustomers"
    /\ cashierIdx <= Len(cashiers)
    /\ whileCondition(customerQueue, cashiers[cashierIdx], minute)
    /\ LET s == cashiers[cashierIdx]
           idle == isIdle(s)
           pop == popleft(customerQueue)
           a == IF idle THEN assignCustomer(s, pop.item, minute, WaitingTimes)
                ELSE [server |-> s, WaitingTimes |-> WaitingTimes]
           p == ServerProcess(a.server, minute, ServiceTimes, TotalFinished, numberKind)
       IN  /\ customerQueue' = IF idle THEN pop.rest ELSE customerQueue
           /\ WaitingTimes' = a.WaitingTimes
           /\ assignLog' = IF idle THEN Append(assignLog, <<pop.item.id, minute>>)
                           ELSE assignLog
           /\ cashiers' = [cashiers EXCEPT ![cashierIdx] = p.server]
           /\ ServiceTimes' = p.ServiceTimes
           /\ TotalFinished' = p.TotalFinished
           /\ delivered' = [delivered EXCEPT ![cashierIdx] = @ + p.work]
           /\ raised' = IF p.raised THEN "ZeroDivisionError" ELSE raised
           /\ pc' = IF p.raised THEN "crashed" ELSE pc
           /\ done' = done \o p.finished
    /\ iterations' = iterations + 1
    /\ UNCHANGED <<cap, CustomersLost, minute, cashierIdx, printed, numberKind,
                   arrived, admitted, rejected>>

\* The while condition is false: the for loop moves to the next cashier
WhileExit ==
    /\ pc = "workOnCustomers"
    /\ cashierIdx <= Len(cashiers)
    /\ ~whileCondition(customerQueue, cashiers[cashierIdx], minute)
    /\ cashierIdx' = cashierIdx + 1
    /\ UNCHANGED <<cashiers, customerQueue, cap, CustomersLost, WaitingTimes,
                   ServiceTimes, TotalFinished, minute, pc, raised, printed,
                   numberKind, arrived, admitted, assignLog, delivered, rejected,
                   done, iterations>>

\* workOnCustomers and process return; run moves to the next minute
ProcessReturn ==
    /\ pc = "workOnCustomers"
    /\ cashierIdx > Len(cashiers)
    /\ pc' = "run"
    /\ minute' = minute + 1
    /\ cashierIdx' = 0
    /\ UNCHANGED <<cashiers, customerQueue, cap, CustomersLost, WaitingTimes,
                   ServiceTimes, TotalFinished, raised, printed, numberKind,
                   arrived, admitted, assignLog, delivered, rejected, done,
                   iterations>>

\* sum(samples) / len(samples) for len(samples) > 0
Mean(total, n) == IF IsNaN(total) THEN NaN ELSE Rat(total[1], total[2] * n)

\* Customer.printStatistics: the lines printed, each <<label, value>>, and
\* whether a mean raised ZeroDivisionError (no line is printed for it then)
printStatistics(WT, ST, TF) ==
    LET finished == <<"Customers finished", <<TF, 1>>>>
        wait == <<"Average Wait Time", Mean(<<SumInt(WT), 1>>, Len(WT))>>
        service == <<"Average Service Time", Mean(SumRat(ST), Len(ST))>>
    IN  IF Len(WT) = 0
        THEN [printed |-> <<finished>>, raised |-> TRUE]
        ELSE IF Len(ST) = 0
        THEN [printed |-> <<finished, wait>>, raised |-> TRUE]
        ELSE [printed |-> <<finished, wait, service>>, raised |-> FALSE]

\* The end of run: printStatistics, then the two prints of run
PrintStatistics ==
    /\ pc = "run"
    /\ minute = MinutesToRun
    /\ LET r == printStatistics(WaitingTimes, ServiceTimes, TotalFinished)
       IN  IF r.raised
           THEN /\ printed' = r.printed
                /\ raised' = "ZeroDivisionError"
                /\ pc' = "crashed"
           ELSE /\ printed' = r.printed \o
                      <<<<"Number of customers still in line", <<Len(customerQueue), 1>>>>,
                        <<"Customers Lost,", <<CustomersLost, 1>>>>>>
                /\ raised' = raised
                /\ pc' = "done"
    /\ UNCHANGED <<cashiers, customerQueue, cap, CustomersLost, WaitingTimes,
                   ServiceTimes, TotalFinished, minute, cashierIdx, numberKind,
                   arrived, admitted, assignLog, delivered, rejected, done,
                   iterations>>

Next == RunLoop \/ WhileBody \/ WhileExit \/ ProcessReturn \/ PrintStatistics

Spec == Init /\ [][Next]_vars

\* the run with batches that hold customers of workload 0
NextZero == RunLoopZero \/ WhileBody \/ WhileExit \/ ProcessReturn \/ PrintStatistics

SpecZero == Init /\ [][NextZero]_vars

\* the run of a CustomerLine built with any capacity of Caps or with None
InitAnyCap == InitWith(Caps \cup {None})

NextAnyCap == RunLoopNoCap \/ Next

SpecAnyCap == InitAnyCap /\ [][NextAnyCap]_vars


\* ------------------------------------------- Customer.help called directly
\* A single customer that a cashier has just been assigned (finishedWaiting
\* at minute 0) is held in customerQueue[1]; every step is one call
\* help(amount, timeNow, fraction) with an amount >= 0, whether or not the
\* customer is finished already.  minute counts the calls and is timeNow.
HelpAmounts == {0, 2, 5}
HelpFractions == {<<0, 1>>, <<2, 5>>, <<1, 1>>}

InitHelp ==
    /\ cashiers = <<>>
    /\ \E work \in Workloads :
         customerQueue = <<finishedWaiting(NewCustomer(1, work, 0), 0, <<>>).customer>>
    /\ cap = 1
    /\ CustomersLost = 0
    /\ WaitingTimes = <<0>>
    /\ ServiceTimes = <<>>
    /\ TotalFinished = 0
    /\ minute = 0
    /\ pc = "help"
    /\ cashierIdx = 0
    /\ raised = "none"
    /\ printed = <<>>
    /\ numberKind = "numpy"
    /\ arrived = 1
    /\ admitted = <<NewCustomer(1, customerQueue[1].unitsOfWorkToComplete, 0)>>
    /\ assignLog = <<<<1, 0>>>>
    /\ delivered = <<>>
    /\ rejected = {}
    /\ done = <<>>
    /\ iterations = 0

HelpCall ==
    /\ pc = "help"
    /\ minute <= MinutesToRun
    /\ \E amount \in HelpAmounts, fraction \in HelpFractions :
         LET h == help(customerQueue[1], amount, minute, fraction,
                       ServiceTimes, TotalFinished)
         IN  /\ customerQueue' = <<h.customer>>
             /\ ServiceTimes' = h.ServiceTimes
             /\ TotalFinished' = h.TotalFinished
    /\ minute' = minute + 1
    /\ UNCHANGED <<cashiers, cap, CustomersLost, WaitingTimes, pc, cashierIdx,
                   raised, printed, numberKind, arrived, admitted, assignLog,
                   delivered, rejected, done, iterations>>

NextHelp == HelpCall

SpecHelp == InitHelp /\ [][NextHelp]_vars

\* ----------------------------------------------------------------- claims
\* process has returned at least once and the run is between two ticks
AfterProcess == pc = "run" /\ minute > 0

\* workOnCustomers has gone through every cashier and is about to return
EndOfWork == pc = "workOnCustomers" /\ cashierIdx > Len(cashiers)

\* the customers currently assigned to a cashier
InService == Cardinality({i \in DOMAIN cashiers : ~isIdle(cashiers[i])})

\* C1 (conservation): after every call of CustomerLine.process the customers
\* that have arrived so far are exactly the finished ones, the ones in the
\* queue, the ones assigned to a cashier and the lost ones.
C1_Conservation ==
    AfterProcess =>
        arrived = TotalFinished + Len(customerQueue) + InService + CustomersLost

C1_Witness ==
    /\ AfterProcess
    /\ TotalFinished > 0
    /\ Len(customerQueue) > 0
    /\ InService > 0
    /\ CustomersLost > 0

\* C2 (capacity): in every state the queue holds at most cap customers.
C2_Capacity == Len(customerQueue) <= cap

C2_Witness ==
    /\ pc = "workOnCustomers"
    /\ cap = 2
    /\ Len(customerQueue) = cap
    /\ CustomersLost > 0
    /\ minute > 0

\* C3 (per-tick progress): when workOnCustomers returns at tick t, every
\* cashier of rate > 0 that still holds a customer has worked on it in tick t
\* up to its budget, and a cashier of rate > 0 left idle while a customer
\* waits has used up its budget in tick t.
C3_PerTickProgress ==
    EndOfWork =>
        \A i \in DOMAIN cashiers :
            LET s == cashiers[i]
            IN  (s.unitsOfWorkPerMin > 0 /\ (~isIdle(s) \/ customerQueue # <<>>))
                    => /\ s.lastCustomerTime = minute
                       /\ s.workDoneInLastMin = s.unitsOfWorkPerMin

\* Scenario C: one cashier of rate 5, capacity >= 1, and so far a single
\* customer, of workload 12, which arrived at tick 0
ScenarioC ==
    /\ Len(cashiers) = 1
    /\ cashiers[1].unitsOfWorkPerMin = 5
    /\ cap >= 1
    /\ arrived = 1
    /\ admitted = <<NewCustomer(1, 12, 0)>>

\* C4 (scenario C): the cashier delivers 5, 5 and 2 units in ticks 0, 1, 2;
\* the customer is unfinished after ticks 0 and 1 and finished after tick 2,
\* with finished count 1, the cashier idle and service time 2 + 2/5.
C4_ScenarioC ==
    (ScenarioC /\ AfterProcess) =>
        /\ minute = 1 =>
              /\ delivered[1] = 5
              /\ TotalFinished = 0
              /\ ~isIdle(cashiers[1])
              /\ cashiers[1].customer[1].workRemaining = 7
        /\ minute = 2 =>
              /\ delivered[1] = 5
              /\ TotalFinished = 0
              /\ ~isIdle(cashiers[1])
              /\ cashiers[1].customer[1].workRemaining = 2
        /\ minute = 3 =>
              /\ delivered[1] = 2
              /\ TotalFinished = 1
              /\ isIdle(cashiers[1])
              /\ ServiceTimes = << <<12, 5>> >>

\* the tick the cashiers last worked in, or are working in
CurrentTick ==
    IF pc = "workOnCustomers" \/ (pc = "crashed" /\ printed = <<>>)
    THEN minute ELSE minute - 1

\* C5 (per-minute budget): in every state, for every cashier, the work
\* delivered in the current tick is at most unitsOfWorkPerMin,
\* 0 <= workDoneInLastMin <= unitsOfWorkPerMin, and workDoneInLastMin of a
\* cashier that has worked in the current tick is the work it delivered in
\* that tick alone (it was reset when the cashier first worked in the tick).
C5_Budget ==
    \A i \in DOMAIN cashiers :
        LET s == cashiers[i]
        IN  /\ 0 <= s.workDoneInLastMin
            /\ s.workDoneInLastMin <= s.unitsOfWorkPerMin
            /\ 0 <= delivered[i]
            /\ delivered[i] <= s.unitsOfWorkPerMin
            /\ s.lastCustomerTime <= CurrentTick
            /\ IF s.lastCustomerTime = CurrentTick
               THEN s.workDoneInLastMin = delivered[i]
               ELSE delivered[i] = 0

\* a cashier serves several customers in tick 1 after working in tick 0
C5_Witness ==
    /\ pc = "workOnCustomers"
    /\ minute = 1
    /\ \E i \in DOMAIN cashiers :
          /\ cashiers[i].lastCustomerTime = 1
          /\ cashiers[i].workDoneInLastMin = 5
          /\ cashiers[i].customersServed >= 2
          /\ \E k \in DOMAIN assignLog : assignLog[k][2] = 0

\* C6 (FIFO): customers are assigned in exactly the order in which they were
\* appended to the queue: the k-th assignment takes the k-th admitted
\* customer, the queue holds the admitted customers not yet assigned in
\* their order of admission, and assignment ticks never decrease.
C6_FIFO ==
    /\ Len(admitted) = Len(assignLog) + Len(customerQueue)
    /\ \A k \in DOMAIN assignLog : assignLog[k][1] = admitted[k].id
    /\ \A k \in DOMAIN customerQueue :
          customerQueue[k].id = admitted[Len(assignLog) + k].id
    /\ \A k \in DOMAIN assignLog :
          k > 1 => assignLog[k - 1][2] <= assignLog[k][2]
    /\ \A k \in DOMAIN admitted :
          k > 1 => /\ admitted[k - 1].id < admitted[k].id
                   /\ admitted[k - 1].timeEnteredLine <= admitted[k].timeEnteredLine

\* two customers of one batch assigned in different ticks, a third waiting
C6_Witness ==
    /\ Len(assignLog) >= 2
    /\ Len(customerQueue) >= 1
    /\ \E k \in DOMAIN assignLog :
          /\ k > 1
          /\ assignLog[k - 1][2] < assignLog[k][2]
          /\ admitted[k - 1].timeEnteredLine = admitted[k].timeEnteredLine

\* C7 (admission cutoff): a batch of n customers arriving at a queue of q
\* customers appends the first min(n, cap - q) customers of the batch, in
\* order, behind the queue, adds the other n - min(n, cap - q) to
\* CustomersLost, and leaves the cashiers alone.
C7_AdmissionCutoff ==
    [][(pc = "run" /\ pc' = "workOnCustomers") =>
          LET n == arrived' - arrived
              q == Len(customerQueue)
              k == Min(n, cap - q)
          IN  /\ q <= cap
              /\ Len(customerQueue') = q + k
              /\ SubSeq(customerQueue', 1, q) = customerQueue
              /\ \A j \in 1..k :
                    /\ customerQueue'[q + j].id = arrived + j
                    /\ customerQueue'[q + j].timeEnteredLine = minute
                    /\ customerQueue'[q + j].timeExitedLine = -1
                    /\ customerQueue'[q + j].workRemaining =
                           customerQueue'[q + j].unitsOfWorkToComplete
              /\ CustomersLost' = CustomersLost + (n - k)
              /\ cashiers' = cashiers]_vars

\* scenario B: capacity 2, empty queue, 3 arrivals: 2 admitted and 1 lost
C7_Witness ==
    /\ pc = "workOnCustomers"
    /\ minute = 0
    /\ cap = 2
    /\ arrived = 3
    /\ assignLog = <<>>
    /\ Len(customerQueue) = 2
    /\ customerQueue[1].id = 1
    /\ customerQueue[2].id = 2
    /\ CustomersLost = 1

\* C8 (idempotent completion): however often help is called on one customer,
\* its service time is recorded, and the finished count raised, at most once.
C8_IdempotentCompletion ==
    pc = "help" => (Len(ServiceTimes) <= 1 /\ TotalFinished <= 1)

\* the run has reached its end and printStatistics was called
RunEnded == minute = MinutesToRun /\ pc \in {"done", "crashed"} /\ printed # <<>>

\* C9 (no samples): a run that ends with no finished customer reports
\* finished count 0 and "no samples" for the two means, and raises nothing.
C9_NoSamples ==
    (RunEnded /\ TotalFinished = 0) =>
        /\ raised = "none"
        /\ printed[1] = <<"Customers finished", <<0, 1>>>>
        /\ \E k \in DOMAIN printed : printed[k][1] = "no samples"

\* C10 (zero servers): with no cashier, no tick raises an error, the queue
\* holds the first min(cap, arrived) arrivals, every other arrival is counted
\* in CustomersLost, and nothing is ever assigned or finished.
C10_ZeroServers ==
    cashiers = <<>> =>
        /\ (pc # "crashed" \/ printed # <<>>)
        /\ Len(customerQueue) = Min(cap, arrived)
        /\ \A k \in DOMAIN customerQueue : customerQueue[k].id = k
        /\ CustomersLost = arrived - Len(customerQueue)
        /\ TotalFinished = 0
        /\ WaitingTimes = <<>>
        /\ ServiceTimes = <<>>
        /\ assignLog = <<>>

C10_Witness ==
    /\ cashiers = <<>>
    /\ AfterProcess
    /\ minute = MinutesToRun
    /\ cap = 2
    /\ Len(customerQueue) = 2
    /\ CustomersLost >= 2


\* ---------------------------------------------- where the customers are
QueueIds == {customerQueue[k].id : k \in DOMAIN customerQueue}
HeldIds  == {cashiers[i].customer[1].id : i \in {j \in DOMAIN cashiers : ~isIdle(cashiers[j])}}
DoneIds  == {done[k].id : k \in DOMAIN done}
AdmittedIds == {admitted[k].id : k \in DOMAIN admitted}
AssignedIds == {assignLog[k][1] : k \in DOMAIN assignLog}

\* the assignCustomer calls of the current tick
AssignedThisTick == Cardinality({k \in DOMAIN assignLog : assignLog[k][2] = minute})

\* the tick in which customer id was assigned (it has been assigned)
AssignTick(id) == (CHOOSE e \in {assignLog[k] : k \in DOMAIN assignLog} : e[1] = id)[2]

\* the customers a cashier holds, as a set
Held == {cashiers[i].customer[1] : i \in {j \in DOMAIN cashiers : ~isIdle(cashiers[j])}}

\* C11 (zero capacity): with cap = 0 every customer is counted lost in the
\* tick it arrives (in every state CustomersLost = arrived and every id is
\* rejected), the queue stays empty, and no customer is ever admitted,
\* assigned or finished, whatever the cashiers are.
C11_ZeroCapacity ==
    cap = 0 =>
        /\ customerQueue = <<>>
        /\ CustomersLost = arrived
        /\ rejected = 1..arrived
        /\ admitted = <<>>
        /\ assignLog = <<>>
        /\ WaitingTimes = <<>>
        /\ ServiceTimes = <<>>
        /\ TotalFinished = 0
        /\ done = <<>>
        /\ \A i \in DOMAIN cashiers : isIdle(cashiers[i])

\* cap = 0, an idle cashier of rate 5 with its budget untouched, arrivals in
\* two ticks
C11_Witness ==
    /\ cap = 0
    /\ pc = "workOnCustomers"
    /\ minute = 1
    /\ arrived >= 4
    /\ CustomersLost = arrived
    /\ \E i \in DOMAIN cashiers :
          cashiers[i].unitsOfWorkPerMin = 5 /\ cashiers[i].workDoneInLastMin = 0

\* Server.process raised ZeroDivisionError
ProcessRaised == pc = "crashed" /\ raised = "ZeroDivisionError" /\ printed = <<>>

\* C12 (zero-rate worker): a cashier of rate 0 never completes a customer
\* (customersServed stays 0), stays bound to the customer it was assigned,
\* and Server.process raises no error for it.
C12_ZeroRateWorker ==
    \A i \in DOMAIN cashiers :
        cashiers[i].unitsOfWorkPerMin = 0 =>
            /\ ~ProcessRaised
            /\ cashiers[i].customersServed = 0
            /\ cashiers[i].lastCustomerTime >= 0 => ~isIdle(cashiers[i])

C14_Lifecycle ==
    /\ Cardinality(QueueIds) = Len(customerQueue)
    /\ Cardinality(HeldIds) = InService
    /\ Cardinality(DoneIds) = Len(done)
    /\ QueueIds \cap HeldIds = {}
    /\ QueueIds \cap DoneIds = {}
    /\ HeldIds \cap DoneIds = {}
    /\ QueueIds \cup HeldIds \cup DoneIds = AdmittedIds
    /\ Cardinality(AdmittedIds) = Len(admitted)
    /\ \A c \in Held : c.workRemaining > 0
    /\ \A k \in DOMAIN done : done[k].workRemaining <= 0
    /\ \A i \in DOMAIN cashiers : Len(cashiers[i].customer) <= 1
    /\ Cardinality(AssignedIds) = Len(assignLog)
    /\ AssignedIds = HeldIds \cup DoneIds
    /\ Len(done) = TotalFinished

\* a customer waiting, two cashiers busy and a customer done
C14_Witness ==
    /\ Len(customerQueue) >= 1
    /\ InService = 2
    /\ Len(done) >= 1
    /\ minute >= 1

\* C15 (dequeue timestamp): timeExitedLine is -1 for a queued customer; for
\* an assigned one (held or done) it is the tick of its one assignment and is
\* >= timeEnteredLine; one waiting time is appended per assignment, the tick
\* of the assignment minus timeEnteredLine, and it is >= 0.
C15_DequeueTimestamp ==
    /\ \A k \in DOMAIN customerQueue : customerQueue[k].timeExitedLine = -1
    /\ Cardinality(AssignedIds) = Len(assignLog)
    /\ \A c \in Held \cup {done[k] : k \in DOMAIN done} :
          /\ c.id \in AssignedIds
          /\ c.timeExitedLine = AssignTick(c.id)
          /\ c.timeExitedLine >= c.timeEnteredLine
    /\ Len(WaitingTimes) = Len(assignLog)
    /\ \A k \in DOMAIN assignLog :
          /\ \E j \in DOMAIN admitted :
                /\ admitted[j].id = assignLog[k][1]
                /\ WaitingTimes[k] = assignLog[k][2] - admitted[j].timeEnteredLine
          /\ WaitingTimes[k] >= 0

\* a customer that waited two ticks is held, the one before it is done, and
\* a third is still in the queue
C15_Witness ==
    /\ \E c \in Held : c.timeExitedLine = c.timeEnteredLine + 2
    /\ \E k \in DOMAIN WaitingTimes : WaitingTimes[k] = 2
    /\ done # <<>>
    /\ customerQueue # <<>>

\* a rejected customer is nowhere: not in the queue, at no cashier, never
\* assigned or done; the samples are those of assigned and done customers
RejectedAbsent ==
    /\ Cardinality(rejected) = CustomersLost
    /\ rejected \cap (QueueIds \cup HeldIds \cup DoneIds \cup AssignedIds) = {}
    /\ Len(WaitingTimes) = Cardinality(AssignedIds)
    /\ Len(ServiceTimes) = Cardinality(DoneIds)

\* C16 (rejection frame): the addCustomersToLine step leaves the cashiers,
\* WaitingTimes, ServiceTimes and TotalFinished unchanged, and in every state
\* the customers counted as lost appear nowhere and in no sample.
C16_RejectionFrame ==
    [][/\ (pc = "run" /\ pc' = "workOnCustomers") =>
              /\ cashiers' = cashiers
              /\ WaitingTimes' = WaitingTimes
              /\ ServiceTimes' = ServiceTimes
              /\ TotalFinished' = TotalFinished
              /\ assignLog' = assignLog
              /\ done' = done
       /\ RejectedAbsent']_vars

\* customers were rejected in an earlier tick, others were since served
C16_Witness ==
    /\ AfterProcess
    /\ minute = MinutesToRun
    /\ Cardinality(rejected) >= 2
    /\ 1 \notin rejected
    /\ \E id \in rejected : \E k \in DOMAIN done : done[k].id > id
    /\ InService >= 1

\* workRemaining of customer id, wherever it is among q, cs and dn
RemainingIn(q, cs, dn, id) ==
    LET all == {q[k] : k \in DOMAIN q}
               \cup {cs[i].customer[1] : i \in {j \in DOMAIN cs : cs[j].customer # <<>>}}
               \cup {dn[k] : k \in DOMAIN dn}
    IN  (CHOOSE c \in all : c.id = id).workRemaining

\* the bounds on workRemaining: untouched in the queue, between 0 and the
\* workload at a cashier, and not negative when done
RemainingInBounds ==
    /\ \A k \in DOMAIN customerQueue :
          customerQueue[k].workRemaining = customerQueue[k].unitsOfWorkToComplete
    /\ \A c \in Held :
          0 <= c.workRemaining /\ c.workRemaining <= c.unitsOfWorkToComplete
    /\ \A k \in DOMAIN done :
          0 <= done[k].workRemaining
             /\ done[k].workRemaining <= done[k].unitsOfWorkToComplete

\* C17 (workload monotonicity): workRemaining is the initial workload while
\* the customer is in the queue, never increases, never becomes negative,
\* and changes only in a while iteration of the cashier whose turn it is,
\* for the customer that cashier holds (or has just finished).
C17_WorkloadMonotone ==
    [][/\ RemainingInBounds'
       /\ \A id \in AdmittedIds :
             LET before == RemainingIn(customerQueue, cashiers, done, id)
                 after == RemainingIn(customerQueue', cashiers', done', id)
             IN  /\ after <= before
                 /\ after # before =>
                       /\ pc = "workOnCustomers"
                       /\ cashierIdx \in DOMAIN cashiers
                       /\ \/ cashiers'[cashierIdx].customer # <<>>
                             /\ cashiers'[cashierIdx].customer[1].id = id
                          \/ /\ Len(done') = Len(done) + 1
                             /\ done'[Len(done')].id = id
                       /\ \/ id \in QueueIds /\ customerQueue[1].id = id
                             /\ isIdle(cashiers[cashierIdx])
                          \/ cashiers[cashierIdx].customer # <<>>
                             /\ cashiers[cashierIdx].customer[1].id = id]_vars

\* a customer served over two ticks is done, another is part served
C17_Witness ==
    /\ \E k \in DOMAIN done :
          /\ done[k].unitsOfWorkToComplete = 12
          /\ done[k].workRemaining = 0
    /\ \E c \in Held : 0 < c.workRemaining /\ c.workRemaining < c.unitsOfWorkToComplete
    /\ customerQueue # <<>>

\* C18 (work conservation in a tick): when workOnCustomers returns at tick t
\* with the queue not empty, every cashier has lastCustomerTime = t and
\* workDoneInLastMin = unitsOfWorkPerMin.
C18_WorkConservation ==
    (EndOfWork /\ customerQueue # <<>>) =>
        \A i \in DOMAIN cashiers :
            /\ cashiers[i].lastCustomerTime = minute
            /\ cashiers[i].workDoneInLastMin = cashiers[i].unitsOfWorkPerMin

\* a cashier has finished two customers and taken a third in this tick, its
\* budget is used up and a customer is still waiting
C18_Witness ==
    /\ EndOfWork
    /\ customerQueue # <<>>
    /\ \E i \in DOMAIN cashiers :
          /\ cashiers[i].unitsOfWorkPerMin = 5
          /\ cashiers[i].customersServed >= 2
          /\ ~isIdle(cashiers[i])
          /\ cashiers[i].customer[1].timeExitedLine = minute
          /\ delivered[i] = 5

\* C19 (tick termination): in a tick the while loops of workOnCustomers make
\* a bounded number of iterations: up to the cashier whose turn it is, at
\* most one iteration per cashier plus one per customer taken from the queue
\* in this tick, so at most len(cashiers) + cap; the for loop goes through
\* the cashiers once.
C19_TickTermination ==
    pc = "workOnCustomers" =>
        /\ iterations <= Min(cashierIdx, Len(cashiers)) + AssignedThisTick
        /\ iterations <= Len(cashiers) + cap
        /\ cashierIdx <= Len(cashiers) + 1

\* a tick with three iterations: customers of workload 0 are finished one
\* after the other, and a cashier of rate 0 has had its turn
C19_Witness ==
    /\ EndOfWork
    /\ iterations >= 3
    /\ \E k \in DOMAIN done : done[k].unitsOfWorkToComplete = 0
    /\ \E i \in DOMAIN cashiers :
          cashiers[i].unitsOfWorkPerMin = 0 /\ cashiers[i].lastCustomerTime = minute

RECURSIVE SumServed(_)
SumServed(cs) == IF cs = <<>> THEN 0 ELSE cs[1].customersServed + SumServed(Tail(cs))

\* C20 (statistics bookkeeping): after every call of process,
\* len(ServiceTimes) = TotalFinished = the sum of customersServed, and
\* len(WaitingTimes) = TotalFinished + the number of busy cashiers.
C20_Bookkeeping ==
    AfterProcess =>
        /\ Len(ServiceTimes) = TotalFinished
        /\ TotalFinished = SumServed(cashiers)
        /\ Len(WaitingTimes) = TotalFinished + InService

\* two cashiers have each finished a customer and both hold another
C20_Witness ==
    /\ AfterProcess
    /\ TotalFinished >= 2
    /\ InService = 2
    /\ \A i \in DOMAIN cashiers : cashiers[i].customersServed >= 1

====
